---- MODULE Spec2Model ----
(***************************************************************************)
(* The note store of src/src/shared/notes.ts.  The file holds three        *)
(* NoteService classes:                                                    *)
(*   "memory"   lines 53-184   collection held in this.notes               *)
(*   "durableA" lines 194-346  notes.json, size checked after the upsert,  *)
(*                             every error of saveNote wrapped             *)
(*   "durableB" lines 356-520  notes.json, size checked before the upsert, *)
(*                             errors other than the size limit swallowed  *)
(* A behaviour is one store of one of the three classes (variant) and the  *)
(* calls a caller makes on it.                                             *)
(*                                                                         *)
(* Strings are sequences of one-character strings.  taskIds are never read *)
(* by the code except to serialize them, so a task id is modelled by its   *)
(* length (an ASCII string of that many characters).                       *)
(***************************************************************************)
EXTENDS Integers, Sequences, FiniteSets, TLC

VARIABLES
    variant,     \* which NoteService class this store is
    notes,       \* memory: this.notes.notes; durable: the notes of notes.json
    fileExists,  \* durable: notes.json has been written
    issued,      \* number of ids crypto.randomUUID() has handed out
    result,      \* what the last call gave its caller, as the caller holds it
    inflight     \* the saveNote calls that run at the same time, each with
                 \* the await it stands at

vars == <<variant, notes, fileExists, issued, result, inflight>>

----------------------------------------------------------------------------
(* Bounds of the model *)

\* saveNote appends only while the collection holds fewer notes than this
MaxNotes == 2

\* crypto.randomUUID() is called at most this many times
MaxUuids == 1

----------------------------------------------------------------------------
(* Program constants *)

MAX_NOTES_SIZE == 1024 * 1024

CURRENT_VERSION == 1

\* length of the string crypto.randomUUID() returns
UuidLength == 36

\* 'Notes collection exceeds size limit'
SizeLimitMessage == "Notes collection exceeds size limit"

----------------------------------------------------------------------------
(* Strings *)

\* the character U+00E9 and its capital U+00C9: two bytes in UTF-8, one
\* UTF-16 code unit
WideLower == "U+00E9"

WideUpper == "U+00C9"

Whitespace == {" "}

\* String.prototype.toLowerCase on one character
LowerChar(c) ==
    CASE c = "A" -> "a"
      [] c = "B" -> "b"
      [] c = "C" -> "c"
      [] c = "D" -> "d"
      [] c = "E" -> "e"
      [] c = "O" -> "o"
      [] c = "N" -> "n"
      [] c = "T" -> "t"
      [] c = WideUpper -> WideLower
      [] OTHER -> c

\* String.prototype.toLowerCase
toLowerCase(s) == [i \in 1..Len(s) |-> LowerChar(s[i])]

\* join with the separator left out: Array.prototype.join('')
RECURSIVE join_NoSeparator(_)
join_NoSeparator(a) ==
    IF Len(a) = 0 THEN <<>> ELSE a[1] \o join_NoSeparator(Tail(a))

\* Array.prototype.join(' ') of an array of strings
RECURSIVE join(_)
join(a) ==
    IF Len(a) = 0 THEN <<>>
    ELSE IF Len(a) = 1 THEN a[1]
    ELSE a[1] \o <<" ">> \o join(Tail(a))

\* String.prototype.includes
includes(s, t) ==
    \E i \in 1..(Len(s) + 1) :
        /\ i + Len(t) - 1 <= Len(s)
        /\ SubSeq(s, i, i + Len(t) - 1) = t

\* String.prototype.split(/\s+/): the pieces between maximal runs of
\* whitespace; a leading or trailing run leaves an empty piece, and the empty
\* string splits into one empty piece
RECURSIVE splitFrom(_, _, _)
splitFrom(s, i, piece) ==
    IF i > Len(s) THEN <<piece>>
    ELSE IF s[i] \in Whitespace
         THEN IF i > 1 /\ s[i - 1] \in Whitespace
              THEN splitFrom(s, i + 1, piece)
              ELSE <<piece>> \o splitFrom(s, i + 1, <<>>)
         ELSE splitFrom(s, i + 1, Append(piece, s[i]))

split(s) == splitFrom(s, 1, <<>>)

\* bytes of one character in UTF-8 (Buffer.from(...).length)
Utf8Bytes(c) == IF c \in {WideLower, WideUpper} THEN 2 ELSE 1

\* UTF-16 code units of one character (String.prototype.length)
Utf16Units(c) == 1

RECURSIVE SumSeq(_)
SumSeq(q) == IF Len(q) = 0 THEN 0 ELSE q[1] + SumSeq(Tail(q))

----------------------------------------------------------------------------
(* Notes (interface Note, lines 10-34) *)

\* relevanceScore is <<>> when the property is absent and <<m, d>>, the
\* fraction m/d in lowest terms, when it is present
NoScore == <<>>

Note(id, title, content, tags, taskIds) ==
    [id |-> id, title |-> title, content |-> content, tags |-> tags,
     taskIds |-> taskIds, timestamp |-> 1, lastAccessed |-> 1,
     relevanceScore |-> NoScore]

----------------------------------------------------------------------------
(* JSON.stringify *)

\* decimal digits of a non-negative integer
RECURSIVE IntegerChars(_)
IntegerChars(n) == IF n < 10 THEN 1 ELSE 1 + IntegerChars(n \div 10)

\* characters of a relevance score m/d as JSON.stringify prints the double:
\* "1", "0.5", "0.25", "0.75", "0.2", and 16 digits after "0." for thirds
ScoreChars(score) ==
    CASE score[2] = 1 -> 1
      [] score[2] = 2 -> 3
      [] score[2] = 4 -> 4
      [] score[2] = 5 -> 3
      [] score[2] = 3 -> 18

\* the size of one character in the encoding "utf8" or "utf16"
CharSize(c, encoding) ==
    IF encoding = "utf8" THEN Utf8Bytes(c) ELSE Utf16Units(c)

\* a string in quotes
StringSize(s, encoding) ==
    2 + SumSeq([i \in 1..Len(s) |-> CharSize(s[i], encoding)])

\* an array of strings without white space: [ "a" , "b" ]
StringArraySize(a, encoding) ==
    2 + SumSeq([i \in 1..Len(a) |-> StringSize(a[i], encoding)])
      + (IF Len(a) > 1 THEN Len(a) - 1 ELSE 0)

\* the taskIds array: each id an ASCII string of the given length
TaskIdsSize(t) ==
    2 + SumSeq([i \in 1..Len(t) |-> t[i] + 2])
      + (IF Len(t) > 1 THEN Len(t) - 1 ELSE 0)

\* JSON.stringify(note): 75 characters of braces, keys, colons and commas
NoteSize(n, encoding) ==
    75 + StringSize(n.id, encoding) + StringSize(n.title, encoding)
       + StringArraySize(n.content, encoding) + StringArraySize(n.tags, encoding)
       + TaskIdsSize(n.taskIds)
       + IntegerChars(n.timestamp) + IntegerChars(n.lastAccessed)
       + (IF n.relevanceScore = NoScore THEN 0
          ELSE 18 + ScoreChars(n.relevanceScore))

\* JSON.stringify({ notes: ns, version: CURRENT_VERSION })
CollectionSize(ns, encoding) ==
    23 + IntegerChars(CURRENT_VERSION)
       + SumSeq([i \in 1..Len(ns) |-> NoteSize(ns[i], encoding)])
       + (IF Len(ns) > 1 THEN Len(ns) - 1 ELSE 0)

\* Buffer.from(JSON.stringify(...)).length
BufferLength(ns) == CollectionSize(ns, "utf8")

\* JSON.stringify(...).length
StringLength(ns) == CollectionSize(ns, "utf16")

\* an array of strings as JSON.stringify(_, null, 2) prints it at the depth
\* of a note's property: [] when empty, else one item per line, eight spaces
\* in, and the closing bracket six spaces in
PrettyStringArrayBytes(a) ==
    IF Len(a) = 0 THEN 2
    ELSE 10 + SumSeq([i \in 1..Len(a) |-> 8 + StringSize(a[i], "utf8")])
            + 2 * (Len(a) - 1)

PrettyTaskIdsBytes(t) ==
    IF Len(t) = 0 THEN 2
    ELSE 10 + SumSeq([i \in 1..Len(t) |-> 8 + t[i] + 2]) + 2 * (Len(t) - 1)

\* a note as JSON.stringify(_, null, 2) prints it inside the notes array
PrettyNoteBytes(n) ==
    136 + StringSize(n.id, "utf8") + StringSize(n.title, "utf8")
        + PrettyStringArrayBytes(n.content) + PrettyStringArrayBytes(n.tags)
        + PrettyTaskIdsBytes(n.taskIds)
        + IntegerChars(n.timestamp) + IntegerChars(n.lastAccessed)
        + (IF n.relevanceScore = NoScore THEN 0
           ELSE 26 + ScoreChars(n.relevanceScore))

\* bytes of the file fs.writeFile(notesFile, JSON.stringify(collection, null, 2))
\* writes
PrettyBytes(ns) ==
    IF Len(ns) = 0 THEN 32 + IntegerChars(CURRENT_VERSION)
    ELSE 36 + IntegerChars(CURRENT_VERSION)
            + SumSeq([i \in 1..Len(ns) |-> 4 + PrettyNoteBytes(ns[i])])
            + 2 * (Len(ns) - 1)

----------------------------------------------------------------------------
(* What the caller passes in *)

EmptyId == <<>>

CallerIds == {<<"a">>, <<"b">>}

UuidDigits == <<"1", "2", "3", "4", "5", "6", "7", "8", "9">>

\* the k-th string crypto.randomUUID() returns: 36 characters, different from
\* every string it returned before
randomUUID(k) ==
    [i \in 1..UuidLength |-> IF i = UuidLength THEN UuidDigits[k] ELSE "0"]

\* the size JSON.stringify gives a note of the half-size bodies when its id is
\* one character long: two such notes, one of them a byte longer, fill the
\* collection to MAX_NOTES_SIZE exactly
HalfNoteSize == (MAX_NOTES_SIZE - 26) \div 2

\* a task id that pads a note with title "h" to HalfNoteSize
HalfPad ==
    HalfNoteSize - 2
        - NoteSize(Note(<<"a">>, <<"h">>, <<>>, <<>>, <<>>), "utf8")

\* title "Ab", content "cd"
BodyAb ==
    [title |-> <<"A", "b">>, content |-> << <<"c", "d">> >>,
     tags |-> <<>>, taskIds |-> <<>>]

\* title "Note", content "code test", tag "Tag"
BodyNote ==
    [title |-> <<"N", "o", "t", "e">>,
     content |-> << <<"c", "o", "d", "e", " ", "t", "e", "s", "t">> >>,
     tags |-> << <<"T", "a", "g">> >>, taskIds |-> <<2>>]

\* title "code", tags "note" and a capital U+00C9
BodyCode ==
    [title |-> <<"c", "o", "d", "e">>, content |-> <<>>,
     tags |-> << <<"n", "o", "t", "e">>, <<WideUpper>> >>, taskIds |-> <<>>]

\* half the budget
BodyHalf ==
    [title |-> <<"h">>, content |-> <<>>, tags |-> <<>>,
     taskIds |-> <<HalfPad>>]

\* half the budget and a byte
BodyHalfPlus ==
    [title |-> <<"h">>, content |-> <<>>, tags |-> <<>>,
     taskIds |-> <<HalfPad + 1>>]

\* content of 'x'.repeat(1024 * 1024 + 1) bytes, as in the test 'respects
\* token limits'
BodyOver ==
    [title |-> <<"h">>, content |-> <<>>, tags |-> <<>>,
     taskIds |-> <<MAX_NOTES_SIZE + 1>>]

NoteOf(id, b) == Note(id, b.title, b.content, b.tags, b.taskIds)

\* the notes a caller builds itself in a session
NewNotes ==
    { NoteOf(id, b) : id \in CallerIds \cup {EmptyId},
                      b \in {BodyNote, BodyHalf, BodyHalfPlus, BodyOver} }

\* query strings of searchNotes: "", "bc", " ab", "AB CD", "code", "note "
Queries ==
    { <<>>,
      <<"b", "c">>,
      <<" ", "a", "b">>,
      <<"A", "B", " ", "C", "D">>,
      <<"c", "o", "d", "e">>,
      <<"n", "o", "t", "e", " ">> }

\* context strings of getRelevantNotes: "", "Ab cd", "code", "note CODE",
\* "code test note tags"
TaskContexts ==
    { <<>>,
      <<"A", "b", " ", "c", "d">>,
      <<"c", "o", "d", "e">>,
      <<"n", "o", "t", "e", " ", "C", "O", "D", "E">>,
      <<"c", "o", "d", "e", " ", "t", "e", "s", "t", " ",
        "n", "o", "t", "e", " ", "t", "a", "g", "s">> }

\* the query and the context of a session: "code"
SessionText == <<"c", "o", "d", "e">>

\* what the file system does during one call: nothing wrong, fs.mkdir
\* rejects in the method called, fs.mkdir rejects in the getNotes it calls,
\* fs.readFile rejects or JSON.parse throws, fs.writeFile rejects; and
\* "stringify": the note cannot be serialized
ReadFaults == {"none", "mkdir", "read"}

SaveFaults == {"none", "mkdir", "mkdirInGetNotes", "read", "write", "stringify"}

----------------------------------------------------------------------------
(* The collection *)

\* Array.prototype.findIndex(n => n.id === id): the first index, 0 for -1
findIndex(ns, id) ==
    IF \E i \in 1..Len(ns) : ns[i].id = id
    THEN CHOOSE i \in 1..Len(ns) :
            /\ ns[i].id = id
            /\ \A j \in 1..(i - 1) : ns[j].id # id
    ELSE 0

\* "Update or add note": replace at existingIndex, else push
upsert(ns, note) ==
    LET existingIndex == findIndex(ns, note.id)
    IN  IF existingIndex > 0
        THEN [ns EXCEPT ![existingIndex] = note]
        ELSE Append(ns, note)

\* "Generate ID for new notes": if (!note.id) note.id = crypto.randomUUID()
generateId(note, uuid) ==
    IF note.id = EmptyId THEN [note EXCEPT !.id = uuid] ELSE note

\* collectionSize > this.MAX_NOTES_SIZE
exceedsLimit(size) == size > MAX_NOTES_SIZE

----------------------------------------------------------------------------
(* searchNotes *)

\* [title, ...content, ...tags], each lowercased, joined by ' '
searchableContent(note) ==
    join(<<toLowerCase(note.title)>>
         \o [i \in 1..Len(note.content) |-> toLowerCase(note.content[i])]
         \o [i \in 1..Len(note.tags) |-> toLowerCase(note.tags[i])])

\* searchTerms.every(term => searchableContent.includes(term))
matchesQuery(note, query) ==
    LET searchTerms == split(toLowerCase(query))
    IN  \A k \in 1..Len(searchTerms) :
            includes(searchableContent(note), searchTerms[k])

\* the indices Array.prototype.filter keeps, in order
RECURSIVE matchingFrom(_, _, _)
matchingFrom(ns, i, query) ==
    IF i > Len(ns) THEN <<>>
    ELSE (IF matchesQuery(ns[i], query) THEN <<i>> ELSE <<>>)
         \o matchingFrom(ns, i + 1, query)

\* the indices of the notes searchNotes(query) returns
searchNotes(ns, query) == matchingFrom(ns, 1, query)

----------------------------------------------------------------------------
(* getRelevantNotes *)

\* new Set(text.toLowerCase().split(/\s+/).filter(term => term.length > 3))
termSet(text) ==
    LET terms == split(toLowerCase(text))
    IN  {terms[k] : k \in {j \in 1..Len(terms) : Len(terms[j]) > 3}}

\* [note.title, ...note.content, ...note.tags].join(' ')
noteText(note) == join(<<note.title>> \o note.content \o note.tags)

RECURSIVE gcd(_, _)
gcd(a, b) == IF b = 0 THEN a ELSE gcd(b, a % b)

\* the double m / d: <<m, d>> in lowest terms; 0 / 0 is NaN
NaN == <<0, 0>>

divide(m, d) ==
    IF d = 0 THEN NaN ELSE <<m \div gcd(m, d), d \div gcd(m, d)>>

Max(a, b) == IF a >= b THEN a ELSE b

\* matchCount / Math.max(contextTerms.size, noteTerms.size)
relevanceScore(note, taskContext) ==
    LET contextTerms == termSet(taskContext)
        noteTerms == termSet(noteText(note))
        matchCount == Cardinality(noteTerms \cap contextTerms)
    IN  divide(matchCount,
               Max(Cardinality(contextTerms), Cardinality(noteTerms)))

\* the threshold written as !(note.relevanceScore <= 0.1), which NaN passes
aboveThreshold_NaNPasses(score) == score = NaN \/ 10 * score[1] > score[2]

\* note.relevanceScore > 0.1; every comparison with NaN is false
aboveThreshold(score) == score # NaN /\ 10 * score[1] > score[2]

\* (b.relevanceScore ?? 0) - (a.relevanceScore ?? 0) > 0: b sorts before a
sortsBefore(b, a) ==
    b.relevanceScore[1] * a.relevanceScore[2]
        > a.relevanceScore[1] * b.relevanceScore[2]

\* Array.prototype.sort is stable: insert each note after the notes it does
\* not sort before
RECURSIVE insertSorted(_, _)
insertSorted(sorted, n) ==
    IF Len(sorted) = 0 THEN <<n>>
    ELSE IF sortsBefore(n, sorted[1])
         THEN <<n>> \o sorted
         ELSE <<sorted[1]>> \o insertSorted(Tail(sorted), n)

RECURSIVE sortFrom(_, _, _)
sortFrom(scored, i, sorted) ==
    IF i > Len(scored) THEN sorted
    ELSE sortFrom(scored, i + 1, insertSorted(sorted, scored[i]))

RECURSIVE scoredFrom(_, _, _)
scoredFrom(ns, i, taskContext) ==
    IF i > Len(ns) THEN <<>>
    ELSE LET score == relevanceScore(ns[i], taskContext)
         IN  (IF aboveThreshold(score)
              THEN << [index |-> i, relevanceScore |-> score] >>
              ELSE <<>>)
             \o scoredFrom(ns, i + 1, taskContext)

\* the notes getRelevantNotes(taskContext) returns, as index and score
getRelevantNotes(ns, taskContext) ==
    sortFrom(scoredFrom(ns, 1, taskContext), 1, <<>>)

----------------------------------------------------------------------------
(* Errors and results *)

\* `${error}` of the error fs.mkdir or fs.writeFile rejects with
IoError == "Error: EACCES: permission denied"

\* `${error}` of the TypeError JSON.stringify throws on a note it cannot
\* serialize
StringifyError == "TypeError: Converting circular structure to JSON"

\* a message is the sequence of the pieces its template string puts together
DirectoryMessage == <<"Failed to create notes directory: ", IoError>>

\* `Failed to save note: ${error}` for a caught Error with the given message
FailedToSave(message) == <<"Failed to save note: ", "Error: ">> \o message

\* what ensureStorageExists throws: nothing (<<>>) when fs.mkdir succeeds
ensureStorageExists(mkdirOk) == IF mkdirOk THEN <<>> ELSE DirectoryMessage

\* the test's expect(...).rejects.toThrow('Notes collection exceeds size
\* limit'): the message contains that text
isSizeLimitError(message) ==
    \E k \in 1..Len(message) : message[k] = SizeLimitMessage

\* the call returned: the notes it returned, in order (saveNote: the one
\* note), and for each the index of the stored note whose content array it
\* shares (0: none); arg is the query or context the call was given, fault
\* what the file system did during the call
Returned(op, arg, fault, ns, refs) ==
    [op |-> op, arg |-> arg, fault |-> fault, threw |-> FALSE,
     message |-> <<>>, notes |-> ns, refs |-> refs,
     version |-> IF op = "list" THEN CURRENT_VERSION ELSE 0]

\* the call threw (its promise rejected) with an Error of this message
Threw(op, arg, fault, message) ==
    [op |-> op, arg |-> arg, fault |-> fault, threw |-> TRUE,
     message |-> message, notes |-> <<>>, refs |-> <<>>, version |-> 0]

NoCopies(ns) == [i \in 1..Len(ns) |-> 0]

\* the notes the caller can pass to saveNote: the ones it builds and the ones
\* the last call returned to it
CallerNotes == NewNotes \cup {result.notes[k] : k \in 1..Len(result.notes)}

\* two saveNote calls whose promises are pending at the same time
Calls == {"first", "second"}

\* a call that has not been made
Idle ==
    [pc |-> "idle", note |-> <<>>, loaded |-> <<>>, collection |-> <<>>,
     threw |-> FALSE, message |-> <<>>, wroteLast |-> FALSE]

----------------------------------------------------------------------------
(* NoteService, in-memory (lines 53-184) *)

Init ==
    /\ variant \in {"memory", "durableA", "durableB"}
    /\ notes = <<>>
    /\ fileExists = FALSE
    /\ issued = 0
    /\ result = Returned("new", <<>>, "none", <<>>, <<>>)
    /\ inflight = [c \in Calls |-> Idle]

\* what one saveNote call does: threw and message, the note returned (when
\* it did not throw), the collection afterwards, and written: whether the
\* collection was stored
Outcome(threw, message, note, collection, written) ==
    [threw |-> threw, message |-> message, note |-> note,
     collection |-> collection, written |-> written]

\* saveNoteMemory with the upsert done before the size check, as lines 230-242
\* order them, and nothing undone when the check throws
saveNoteMemory_UpsertBeforeCheck(ns, note, uuid, fault) ==
    LET stored == generateId(note, uuid)
        updatedNotes == upsert(ns, stored)
    IN  IF fault = "stringify"
        THEN Outcome(FALSE, <<>>, note, ns, FALSE)
        ELSE IF exceedsLimit(BufferLength(updatedNotes))
        THEN Outcome(TRUE, <<SizeLimitMessage>>, note, updatedNotes, FALSE)
        ELSE Outcome(FALSE, <<>>, stored, updatedNotes, TRUE)

\* saveNote, lines 68-103, on the collection ns; uuid is what
\* crypto.randomUUID() would return
saveNoteMemory(ns, note, uuid, fault) ==
    LET updatedNotes == Append(ns, note)
        stored == generateId(note, uuid)
    IN  IF fault = "stringify"
        THEN \* JSON.stringify throws: caught at line 96, logged, the note
             \* returned as it came
             Outcome(FALSE, <<>>, note, ns, FALSE)
        ELSE IF exceedsLimit(BufferLength(updatedNotes))
        THEN Outcome(TRUE, <<SizeLimitMessage>>, note, ns, FALSE)
        ELSE Outcome(FALSE, <<>>, stored, upsert(ns, stored), TRUE)

\* the model's bounds on a call: the collection stays within MaxNotes and
\* crypto.randomUUID() is called at most MaxUuids times
WithinBounds(note, out) ==
    /\ Len(out.collection) <= MaxNotes
    /\ (note.id = EmptyId /\ out.note.id # EmptyId) => issued < MaxUuids

\* the caller's note object got an id: crypto.randomUUID() was called
UuidsAfter(note, out) ==
    IF note.id = EmptyId /\ out.note.id # EmptyId THEN issued + 1 ELSE issued

SaveNoteMemory(note, fault) ==
    /\ variant = "memory"
    /\ fault \in {"none", "stringify"}
    /\ LET out == saveNoteMemory(notes, note, randomUUID(issued + 1), fault)
       IN  /\ WithinBounds(note, out)
           /\ notes' = out.collection
           /\ issued' = UuidsAfter(note, out)
           /\ result' = IF out.threw
                        THEN Threw("save", <<>>, fault, out.message)
                        ELSE Returned("save", <<>>, fault, <<out.note>>,
                                 <<IF out.written
                                   THEN findIndex(notes', out.note.id)
                                   ELSE 0>>)
    /\ UNCHANGED <<variant, fileExists, inflight>>

\* getNotes, lines 108-113: the array returned is this.notes.notes itself
GetNotesMemory ==
    /\ variant = "memory"
    /\ result' = Returned("list", <<>>, "none", notes,
                          [i \in 1..Len(notes) |-> i])
    /\ UNCHANGED <<variant, notes, fileExists, issued, inflight>>

\* searchNotes, lines 118-135: filter returns the stored objects
SearchNotesMemory(query) ==
    /\ variant = "memory"
    /\ LET kept == searchNotes(notes, query)
       IN  result' = Returned("search", query, "none",
                              [k \in 1..Len(kept) |-> notes[kept[k]]], kept)
    /\ UNCHANGED <<variant, notes, fileExists, issued, inflight>>

\* { ...note, relevanceScore }: a copy whose content, tags and taskIds are
\* the arrays of the note it copies
withScore(ns, scored) ==
    [k \in 1..Len(scored) |->
        [ns[scored[k].index] EXCEPT
            !.relevanceScore = scored[k].relevanceScore]]

\* getRelevantNotes, lines 140-183
GetRelevantNotesMemory(taskContext) ==
    /\ variant = "memory"
    /\ LET scored == getRelevantNotes(notes, taskContext)
       IN  result' = Returned("relevant", taskContext, "none",
                              withScore(notes, scored),
                              [k \in 1..Len(scored) |-> scored[k].index])
    /\ UNCHANGED <<variant, notes, fileExists, issued, inflight>>

----------------------------------------------------------------------------
(* NoteService, file-backed (lines 194-346 and 356-520) *)

\* getNotes, lines 426-447 (lines 254-275 are the same): ensureStorageExists
\* is called outside the try; a read or parse failure gives the empty
\* collection
getNotes(mkdirOk, readOk) ==
    IF ~mkdirOk
    THEN [threw |-> TRUE, message |-> ensureStorageExists(mkdirOk),
          notes |-> <<>>]
    ELSE [threw |-> FALSE, message |-> <<>>,
          notes |-> IF fileExists /\ readOk THEN notes ELSE <<>>]

\* saveNote, lines 219-249: upsert, then the size check on
\* JSON.stringify(collection).length, then the write; every error wrapped.
\* loaded is what its getNotes call gave
saveNoteDurableA(loaded, note, uuid, fault) ==
    LET stored == generateId(note, uuid)
        collection == upsert(loaded.notes, stored)
    IN  IF fault = "mkdir"
        THEN Outcome(TRUE, ensureStorageExists(FALSE), note, loaded.notes,
                     FALSE)
        ELSE IF loaded.threw
        THEN Outcome(TRUE, FailedToSave(loaded.message), note, loaded.notes,
                     FALSE)
        ELSE IF fault = "stringify"
        THEN Outcome(TRUE, <<"Failed to save note: ", StringifyError>>,
                     stored, collection, FALSE)
        ELSE IF exceedsLimit(StringLength(collection))
        THEN Outcome(TRUE, FailedToSave(<<SizeLimitMessage>>), stored,
                     collection, FALSE)
        ELSE IF fault = "write"
        THEN Outcome(TRUE, <<"Failed to save note: ", IoError>>, stored,
                     collection, FALSE)
        ELSE Outcome(FALSE, <<>>, stored, collection, TRUE)

\* saveNote, lines 381-421: the size check on the loaded notes with the note
\* appended, then the upsert and the write; only the size error rethrown
saveNoteDurableB(loaded, note, uuid, fault) ==
    LET updatedNotes == Append(loaded.notes, note)
        stored == generateId(note, uuid)
        collection == upsert(loaded.notes, stored)
    IN  IF fault = "mkdir"
        THEN Outcome(TRUE, ensureStorageExists(FALSE), note, loaded.notes,
                     FALSE)
        ELSE IF loaded.threw \/ fault = "stringify"
        THEN \* caught at line 414, logged, the note returned as it came
             Outcome(FALSE, <<>>, note, loaded.notes, FALSE)
        ELSE IF exceedsLimit(BufferLength(updatedNotes))
        THEN Outcome(TRUE, <<SizeLimitMessage>>, note, loaded.notes, FALSE)
        ELSE IF fault = "write"
        THEN \* fs.writeFile rejects: caught, logged, the note returned
             Outcome(FALSE, <<>>, stored, collection, FALSE)
        ELSE Outcome(FALSE, <<>>, stored, collection, TRUE)

\* a saveNote call on notes.json: the file is what the call wrote, if it wrote
SaveNoteDurable(out, note, fault) ==
    /\ WithinBounds(note, out)
    /\ notes' = IF out.written THEN out.collection ELSE notes
    /\ fileExists' = (fileExists \/ out.written)
    /\ issued' = UuidsAfter(note, out)
    /\ result' = IF out.threw
                 THEN Threw("save", <<>>, fault, out.message)
                 ELSE Returned("save", <<>>, fault, <<out.note>>, <<0>>)
    /\ UNCHANGED <<variant, inflight>>

SaveNoteDurableA(note, fault) ==
    /\ variant = "durableA"
    /\ SaveNoteDurable(
          saveNoteDurableA(getNotes(fault # "mkdirInGetNotes", fault # "read"),
                           note, randomUUID(issued + 1), fault),
          note, fault)

SaveNoteDurableB(note, fault) ==
    /\ variant = "durableB"
    /\ SaveNoteDurable(
          saveNoteDurableB(getNotes(fault # "mkdirInGetNotes", fault # "read"),
                           note, randomUUID(issued + 1), fault),
          note, fault)

\* getNotes, lines 254-275 and 426-447
GetNotesDurable(fault) ==
    /\ variant \in {"durableA", "durableB"}
    /\ LET loaded == getNotes(fault # "mkdir", fault # "read")
       IN  result' = IF loaded.threw
                     THEN Threw("list", <<>>, fault, loaded.message)
                     ELSE Returned("list", <<>>, fault, loaded.notes,
                                   NoCopies(loaded.notes))
    /\ UNCHANGED <<variant, notes, fileExists, issued, inflight>>

\* searchNotes, lines 280-298 and 452-470: an error of getNotes is caught and
\* gives []
SearchNotesDurable(query, fault) ==
    /\ variant \in {"durableA", "durableB"}
    /\ LET loaded == getNotes(fault # "mkdir", fault # "read")
           kept == searchNotes(loaded.notes, query)
           found == [k \in 1..Len(kept) |-> loaded.notes[kept[k]]]
       IN  result' = IF loaded.threw
                     THEN Returned("search", query, fault, <<>>, <<>>)
                     ELSE Returned("search", query, fault, found,
                                   NoCopies(found))
    /\ UNCHANGED <<variant, notes, fileExists, issued, inflight>>

\* getRelevantNotes, lines 303-345 and 475-519
GetRelevantNotesDurable(taskContext, fault) ==
    /\ variant \in {"durableA", "durableB"}
    /\ LET loaded == getNotes(fault # "mkdir", fault # "read")
           scored == getRelevantNotes(loaded.notes, taskContext)
       IN  result' = IF loaded.threw
                     THEN Returned("relevant", taskContext, fault, <<>>, <<>>)
                     ELSE Returned("relevant", taskContext, fault,
                                   withScore(loaded.notes, scored),
                                   NoCopies(scored))
    /\ UNCHANGED <<variant, notes, fileExists, issued, inflight>>

----------------------------------------------------------------------------
(* saveNote of the file-backed classes, await by await *)

\* the notes of the calls that run at the same time: two ids, a small body
\* and one of more than half the budget
ConcurrentNotes ==
    { NoteOf(id, b) : id \in CallerIds, b \in {BodyNote, BodyHalfPlus} }

\* saveNote(note) is called: it runs to `await this.ensureStorageExists()`
\* (lines 220, 382)
BeginSave(c, note) ==
    /\ variant \in {"durableA", "durableB"}
    /\ inflight[c].pc = "idle"
    /\ inflight' = [inflight EXCEPT ![c] = [Idle EXCEPT !.pc = "ensure",
                                                         !.note = note]]
    /\ UNCHANGED <<variant, notes, fileExists, issued, result>>

\* fs.mkdir resolves; saveNote calls getNotes, which runs to
\* `await fs.readFile(...)` (lines 223, 385 and 255-259, 427-431)
EnsureStorage(c) ==
    /\ inflight[c].pc = "ensure"
    /\ inflight' = [inflight EXCEPT ![c].pc = "read"]
    /\ UNCHANGED <<variant, notes, fileExists, issued, result>>

\* fs.readFile settles with the file as it is now; saveNote runs on to
\* `await fs.writeFile(this.notesFile, JSON.stringify(collection, null, 2))`
\* or throws (lines 224-244, 386-412)
ReadFile(c) ==
    /\ inflight[c].pc = "read"
    /\ LET loaded == getNotes(TRUE, TRUE)
           out == IF variant = "durableA"
                  THEN saveNoteDurableA(loaded, inflight[c].note,
                                        randomUUID(issued + 1), "none")
                  ELSE saveNoteDurableB(loaded, inflight[c].note,
                                        randomUUID(issued + 1), "none")
       IN  /\ WithinBounds(inflight[c].note, out)
           /\ issued' = UuidsAfter(inflight[c].note, out)
           /\ inflight' = [inflight EXCEPT ![c] =
                 [pc |-> IF out.threw THEN "done" ELSE "write",
                  note |-> out.note, loaded |-> loaded.notes,
                  collection |-> out.collection, threw |-> out.threw,
                  message |-> out.message, wroteLast |-> FALSE]]
    /\ UNCHANGED <<variant, notes, fileExists, result>>

\* WriteFile writing the file it finds with the note upserted, as a save
\* that reads and writes in one step would
WriteFile_ReadsAgain(c) ==
    /\ inflight[c].pc = "write"
    /\ notes' = upsert(notes, inflight[c].note)
    /\ fileExists' = TRUE
    /\ inflight' = [d \in Calls |->
          IF d = c THEN [inflight[c] EXCEPT !.pc = "done", !.wroteLast = TRUE]
          ELSE [inflight[d] EXCEPT !.wroteLast = FALSE]]
    /\ UNCHANGED <<variant, issued, result>>

\* fs.writeFile settles: the file is the text this call stringified before
\* the await; saveNote returns the note (lines 244-245, 412-413)
WriteFile(c) ==
    /\ inflight[c].pc = "write"
    /\ notes' = inflight[c].collection
    /\ fileExists' = TRUE
    /\ inflight' = [d \in Calls |->
          IF d = c THEN [inflight[c] EXCEPT !.pc = "done", !.wroteLast = TRUE]
          ELSE [inflight[d] EXCEPT !.wroteLast = FALSE]]
    /\ UNCHANGED <<variant, issued, result>>

----------------------------------------------------------------------------
(* The caller, between calls *)

\* the caller empties the content array of a note it was returned
\* (note.content.length = 0); in memory the stored note has the same array
CallerClearsContent(k) ==
    /\ k \in 1..Len(result.notes)
    /\ result.notes[k].content # <<>>
    /\ result' = [result EXCEPT !.notes[k].content = <<>>]
    /\ notes' = IF result.refs[k] > 0
                THEN [notes EXCEPT ![result.refs[k]].content = <<>>]
                ELSE notes
    /\ UNCHANGED <<variant, fileExists, issued, inflight>>

\* the caller pops the last note off the array getNotes returned; in memory
\* that array is this.notes.notes
CallerPopsList ==
    /\ result.op = "list"
    /\ Len(result.notes) > 0
    /\ result' = [result EXCEPT
                    !.notes = SubSeq(@, 1, Len(@) - 1),
                    !.refs = SubSeq(@, 1, Len(@) - 1)]
    /\ notes' = IF variant = "memory"
                THEN SubSeq(notes, 1, Len(notes) - 1)
                ELSE notes
    /\ UNCHANGED <<variant, fileExists, issued, inflight>>

----------------------------------------------------------------------------
(* A session: one store and the calls of its caller *)

Next ==
    \/ \E note \in CallerNotes, fault \in SaveFaults :
          SaveNoteMemory(note, fault)
    \/ GetNotesMemory
    \/ SearchNotesMemory(SessionText)
    \/ GetRelevantNotesMemory(SessionText)
    \/ \E note \in CallerNotes, fault \in SaveFaults :
          SaveNoteDurableA(note, fault)
    \/ \E note \in CallerNotes, fault \in SaveFaults :
          SaveNoteDurableB(note, fault)
    \/ \E fault \in ReadFaults : GetNotesDurable(fault)
    \/ \E fault \in ReadFaults : SearchNotesDurable(SessionText, fault)
    \/ \E fault \in ReadFaults : GetRelevantNotesDurable(SessionText, fault)
    \/ \E k \in 1..(MaxNotes + 1) : CallerClearsContent(k)
    \/ CallerPopsList

Spec == Init /\ [][Next]_vars

----------------------------------------------------------------------------
(* Sessions of saveNote and getNotes calls only *)

SavesNext ==
    \/ \E note \in CallerNotes, fault \in SaveFaults :
          SaveNoteMemory(note, fault)
    \/ GetNotesMemory
    \/ \E note \in CallerNotes, fault \in SaveFaults :
          SaveNoteDurableA(note, fault)
    \/ \E note \in CallerNotes, fault \in SaveFaults :
          SaveNoteDurableB(note, fault)
    \/ \E fault \in ReadFaults : GetNotesDurable(fault)

SavesSpec == Init /\ [][SavesNext]_vars

----------------------------------------------------------------------------
(* searchNotes on every small collection *)

PositionIds == << <<"a">>, <<"b">>, <<"c">>, <<"d">> >>

\* the collections of at most MaxNotes notes with the three small bodies, as
\* saveNote calls with the ids "a", "b", ... leave them
SmallCollections ==
    UNION { { [i \in 1..n |-> NoteOf(PositionIds[i], bodies[i])] :
                bodies \in [1..n -> {BodyAb, BodyNote, BodyCode}] } :
            n \in 0..MaxNotes }

SearchInit ==
    /\ variant \in {"memory", "durableA", "durableB"}
    /\ notes \in SmallCollections
    /\ fileExists = (variant # "memory" /\ notes # <<>>)
    /\ issued = 0
    /\ result = Returned("new", <<>>, "none", <<>>, <<>>)
    /\ inflight = [c \in Calls |-> Idle]

SearchNext ==
    \/ \E query \in Queries : SearchNotesMemory(query)
    \/ \E query \in Queries, fault \in ReadFaults :
          SearchNotesDurable(query, fault)

SearchSpec == SearchInit /\ [][SearchNext]_vars

----------------------------------------------------------------------------
(* getRelevantNotes on every small collection *)

RelevantNext ==
    \/ \E taskContext \in TaskContexts : GetRelevantNotesMemory(taskContext)
    \/ \E taskContext \in TaskContexts, fault \in ReadFaults :
          GetRelevantNotesDurable(taskContext, fault)

RelevantSpec == SearchInit /\ [][RelevantNext]_vars

----------------------------------------------------------------------------
(* Two saveNote calls on one file-backed store at the same time *)

ConcurrentNext ==
    \/ \E c \in Calls, note \in ConcurrentNotes : BeginSave(c, note)
    \/ \E c \in Calls : EnsureStorage(c)
    \/ \E c \in Calls : ReadFile(c)
    \/ \E c \in Calls : WriteFile(c)

ConcurrentSpec == Init /\ [][ConcurrentNext]_vars

----------------------------------------------------------------------------
(* Claims *)

\* a step of saveNote, whatever its arguments
SaveStep ==
    \E note \in CallerNotes, fault \in SaveFaults :
        \/ SaveNoteMemory(note, fault)
        \/ SaveNoteDurableA(note, fault)
        \/ SaveNoteDurableB(note, fault)

\* the bytes of the collection as the store holds it: in memory its
\* serialization, on disk the file written
StoredBytes ==
    IF variant = "memory" THEN BufferLength(notes)
    ELSE IF fileExists THEN PrettyBytes(notes)
    ELSE 0

Ids(ns) == {ns[i].id : i \in 1..Len(ns)}

\* C1: after any sequence of saves from the empty store, the serialized size
\* of the stored collection, as held in memory or as written to the file,
\* is at most 1,048,576 bytes.
C1_SizeWithinBudget == StoredBytes <= MAX_NOTES_SIZE

\* C2: a saveNote call that is rejected with the size-limit error leaves the
\* stored collection as it was, so getNotes returns the same notes after it
\* as before it.
C2_RejectedSaveChangesNothing ==
    [][(result'.op = "save" /\ result'.threw
            /\ isSizeLimitError(result'.message))
          => (notes' = notes /\ fileExists' = fileExists)]_vars

\* C2 witness: a save was rejected with the size-limit error while the
\* store held a note.
C2_Witness ==
    /\ result.op = "save"
    /\ result.threw
    /\ isSizeLimitError(result.message)
    /\ Len(notes) > 0

\* C3: saveNote either returns a note or raises the size-limit error; it
\* raises no other error, whatever the storage does.
C3_OnlySizeLimitErrorFromSave ==
    (result.op = "save" /\ result.threw) => isSizeLimitError(result.message)

\* C4: getNotes never raises; on a fresh store, and when the file is missing,
\* unreadable or unparseable or the storage location is unavailable, it
\* returns { notes: [], version: 1 }.
C4_ListNeverRaises ==
    result.op = "list" =>
        /\ ~result.threw
        /\ (result.fault # "none" \/ (variant # "memory" /\ ~fileExists))
              => (result.notes = <<>> /\ result.version = 1)

\* C5: every stored note has a non-empty id, no two stored notes share an
\* id, and a saveNote call that returns (for a note that can be serialized)
\* gives a note whose id is non-empty and has exactly one entry in the
\* collection.
C5_IdsNonEmptyAndUnique ==
    /\ \A i \in 1..Len(notes) : notes[i].id # EmptyId
    /\ \A i, j \in 1..Len(notes) : notes[i].id = notes[j].id => i = j
    /\ (result.op = "save" /\ ~result.threw /\ result.fault # "stringify") =>
          /\ result.notes[1].id # EmptyId
          /\ Cardinality({i \in 1..Len(notes) :
                            notes[i].id = result.notes[1].id}) = 1

\* C6: a saveNote call that returns N (a note that can be serialized) has
\* replaced the stored note with N's id at its position, or appended N when
\* no stored note had its id, and has left every other note and the order as
\* they were.
C6_SaveUpsertsInPlace ==
    [][(SaveStep /\ ~result'.threw /\ result'.fault # "stringify")
          => notes' = upsert(notes, result'.notes[1])]_vars

\* C7: a note the file-backed store has stored stays stored through every
\* later call, those during which a read or write fails included.
C7_StoredNotesStayStored ==
    [][variant # "memory" => Ids(notes) \subseteq Ids(notes')]_vars

\* C8: a caller that modifies a collection or a note the store returned to
\* it does not change what the store holds.
C8_CallerHoldsNoReference ==
    [][((\E k \in 1..(MaxNotes + 1) : CallerClearsContent(k))
            \/ CallerPopsList)
          => notes' = notes]_vars

\* C9: no stored note carries a relevance score, also after a note that
\* getRelevantNotes returned is passed back to saveNote.
C9_ScoresNeverStored ==
    \A i \in 1..Len(notes) : notes[i].relevanceScore = NoScore

\* the collection a call of the file-backed store works on: the file's notes,
\* or none when the file is missing or could not be read or the directory
\* could not be made; in memory the collection itself
Loaded ==
    IF variant = "memory" \/ (result.fault = "none" /\ fileExists)
    THEN notes
    ELSE <<>>

\* t occurs in s
Occurs(t, s) ==
    \E d \in 0..(Len(s) - Len(t)) : \A k \in 1..Len(t) : s[d + k] = t[k]

\* q[i..e] is a maximal run of characters other than white space
IsRun(q, i, e) ==
    /\ i <= e
    /\ \A k \in i..e : q[k] \notin Whitespace
    /\ (i = 1 \/ q[i - 1] \in Whitespace)
    /\ (e = Len(q) \/ q[e + 1] \in Whitespace)

\* the maximal runs of characters other than white space in q
Runs(q) ==
    { SubSeq(q, p[1], p[2]) :
        p \in { r \in (1..Len(q)) \X (1..Len(q)) : IsRun(q, r[1], r[2]) } }

\* title, content lines and tags of a note, in that order
Fields(n) == <<n.title>> \o n.content \o n.tags

\* the fields one after the other with sep between two fields
RECURSIVE Glue(_, _)
Glue(fields, sep) ==
    IF Len(fields) = 1 THEN fields[1]
    ELSE fields[1] \o sep \o Glue(Tail(fields), sep)

\* every term of the lowercased query occurs in the lowercased fields glued
\* with sep
Matches(n, query, sep) ==
    \A term \in Runs(toLowerCase(query)) :
        Occurs(term, toLowerCase(Glue(Fields(n), sep)))

\* the notes of ns that match, in the order of ns
RECURSIVE Matching(_, _, _)
Matching(ns, query, sep) ==
    IF Len(ns) = 0 THEN <<>>
    ELSE (IF Matches(ns[1], query, sep) THEN <<ns[1]>> ELSE <<>>)
         \o Matching(Tail(ns), query, sep)

\* C10 as stated: a searchNotes call that returns gives exactly the notes for which every term
\* of the query is a substring of the lowercased concatenation of title,
\* content lines and tags, in collection order.
C10_SearchMatchesConcatenation ==
    (result.op = "search" /\ ~result.threw) => result.notes = Matching(Loaded, result.arg, <<>>)

\* C10 as amended: a searchNotes call that returns gives exactly the notes for which every
\* term of the query is a substring of the lowercased title, content lines
\* and tags joined with one space between two of them, in collection order.
C10_SearchMatchesSpaceJoined ==
    (result.op = "search" /\ ~result.threw) =>
        result.notes = Matching(Loaded, result.arg, <<" ">>)

\* C10 witness: a query of two terms in capitals kept one note of two.
C10_Witness ==
    /\ result.op = "search"
    /\ ~result.threw
    /\ result.arg = <<"A", "B", " ", "C", "D">>
    /\ Len(notes) = 2
    /\ Len(result.notes) = 1

\* the terms of a text: its lowercased runs of more than 3 characters
Terms(text) == {term \in Runs(toLowerCase(text)) : Len(term) > 3}

\* the terms of a note: those of its title, content lines and tags
NoteTerms(n) == Terms(Glue(Fields(n), <<" ">>))

\* the score of a note as a fraction <<matches, larger set size>>, and 0 when
\* both term sets are empty
Score(n, context) ==
    LET larger == Max(Cardinality(NoteTerms(n)), Cardinality(Terms(context)))
    IN  IF larger = 0 THEN <<0, 1>>
        ELSE <<Cardinality(NoteTerms(n) \cap Terms(context)), larger>>

\* the fraction f is strictly greater than 0.1
Relevant(f) == 10 * f[1] > f[2]

\* the fractions f and g, as rationals
Less(f, g) == f[1] * g[2] < g[1] * f[2]
Same(f, g) == f[1] * g[2] = g[1] * f[2]

\* the position in ns of the note with the given id
Position(ns, id) == CHOOSE i \in 1..Len(ns) : ns[i].id = id

\* C11: getRelevantNotes returns exactly the notes whose score (note terms
\* of more than 3 characters that occur in the context's term set, over the
\* larger of the two set sizes, 0 when both are empty) is strictly greater
\* than 0.1, each once and with that score attached, by descending score and
\* in collection order among equal scores; a note with no terms is never
\* returned for a context with no terms.
C11_RelevantNotesRanked ==
    result.op = "relevant" =>
        LET context == result.arg
            returned == result.notes
        IN  /\ ~result.threw
            /\ {returned[k].id : k \in 1..Len(returned)}
                 = {Loaded[i].id : i \in {j \in 1..Len(Loaded) :
                                            Relevant(Score(Loaded[j], context))}}
            /\ \A j, k \in 1..Len(returned) :
                 returned[j].id = returned[k].id => j = k
            /\ \A k \in 1..Len(returned) :
                 LET stored == Loaded[Position(Loaded, returned[k].id)]
                 IN  /\ returned[k].relevanceScore # NoScore
                     /\ returned[k].relevanceScore # NaN
                     /\ Same(returned[k].relevanceScore, Score(stored, context))
                     /\ [returned[k] EXCEPT !.relevanceScore = NoScore] = stored
            /\ \A j, k \in 1..Len(returned) :
                 j < k =>
                   LET first == Loaded[Position(Loaded, returned[j].id)]
                       second == Loaded[Position(Loaded, returned[k].id)]
                   IN  /\ ~Less(Score(first, context), Score(second, context))
                       /\ Same(Score(first, context), Score(second, context))
                            => Position(Loaded, returned[j].id)
                                 < Position(Loaded, returned[k].id)
            /\ \A i \in 1..Len(Loaded) :
                 (NoteTerms(Loaded[i]) = {} /\ Terms(context) = {})
                   => \A k \in 1..Len(returned) : returned[k].id # Loaded[i].id

\* C11 witness: the second note of the collection came back before the first.
C11_Witness ==
    /\ result.op = "relevant"
    /\ Len(notes) = 2
    /\ Len(result.notes) = 2
    /\ result.notes[1].id = notes[2].id
    /\ result.notes[2].id = notes[1].id

\* C11 witness of the degenerate case: no terms in the context, a note
\* without terms in the collection, nothing returned.
C11_WitnessNoTerms ==
    /\ result.op = "relevant"
    /\ Terms(result.arg) = {}
    /\ \E i \in 1..Len(Loaded) : NoteTerms(Loaded[i]) = {}
    /\ result.notes = <<>>

\* the collection as it would be after upserting the note saveNote was given,
\* with the id saveNote gives it
AfterUpsert(note) == upsert(notes, generateId(note, randomUUID(issued + 1)))

\* C12: in all three classes a saveNote call (no file system fault, a note
\* that can be serialized) is accepted if the serialized size of the
\* collection as it would be after upserting the note is at most 1,048,576
\* bytes, and rejected only if that size exceeds the budget.
C12_AcceptedIffUpsertedFits ==
    [][\A note \in CallerNotes :
          (\/ SaveNoteMemory(note, "none")
           \/ SaveNoteDurableA(note, "none")
           \/ SaveNoteDurableB(note, "none"))
            => (~result'.threw
                  <=> BufferLength(AfterUpsert(note)) <= MAX_NOTES_SIZE)]_vars

\* the call has returned its note to the caller
Returned13(c) == inflight[c].pc = "done" /\ ~inflight[c].threw

\* C13: the last write wins. Once a saveNote call has written, and until the
\* other call writes, the file holds the collection that call read with its
\* note upserted, whatever the other call wrote between that read and this
\* write.
C13_LastWriteWins ==
    \A c \in Calls :
        (Returned13(c) /\ inflight[c].wroteLast)
            => notes = upsert(inflight[c].loaded, inflight[c].note)

\* C13 witness: two saves of notes with different ids have both returned
\* and the file holds the note of the one that wrote last and not the
\* other's.
C13_LostUpdate ==
    \E c, d \in Calls :
        /\ Returned13(c) /\ Returned13(d)
        /\ inflight[c].note.id # inflight[d].note.id
        /\ inflight[c].wroteLast
        /\ inflight[c].note.id \in Ids(notes)
        /\ inflight[d].note.id \notin Ids(notes)

====
